---- MODULE Spec2Model ----
(***************************************************************************)
(* Options pricing / Greeks / implied volatility / delta hedging.          *)
(*                                                                         *)
(* Real quantities of the Python code (floats) are carried as fixed-point  *)
(* integers: the integer x stands for the real x / ONE.  Prices, rates,    *)
(* maturities, volatilities, share counts and cash all use this unit.      *)
(* Sums and differences are exact; a product or quotient is rounded to     *)
(* the nearest grid point (Mul, Div).  The library functions the code     *)
(* calls (np.log, np.exp, np.sqrt, norm.cdf, norm.pdf) are computed on the *)
(* same grid.                                                              *)
(***************************************************************************)
EXTENDS Integers, Sequences, FiniteSets, TLC

ONE == 10 * 10 * 10

Abs(x) == IF x < 0 THEN -x ELSE x
Max(a, b) == IF a >= b THEN a ELSE b

\* a * b and a / b of the code, on the fixed-point grid.  The operands of
\* every quotient are numpy floats: a division by zero does not raise, it
\* gives an infinity of the sign of the numerator, for which Inf stands.
Inf == 10^9
Mul(a, b) == (a * b + ONE \div 2) \div ONE
Div(a, b) ==
    IF b = 0 THEN (IF a < 0 THEN -Inf ELSE Inf)
    ELSE IF b < 0 THEN -((a * ONE + (-b) \div 2) \div (-b))
    ELSE (a * ONE + b \div 2) \div b

(***************************************************************************)
(* Library functions.                                                      *)
(***************************************************************************)
RECURSIVE ISqrtIter(_, _)
ISqrtIter(n, g) ==
    LET h == (g + n \div g) \div 2
    IN  IF h >= g THEN g ELSE ISqrtIter(n, h)

\* np.sqrt(x), x >= 0
Sqrt(x) == IF x <= 0 THEN 0 ELSE ISqrtIter(x * ONE, x * ONE)

RECURSIVE LnSeries(_, _, _, _)
LnSeries(zpow, z2, k, terms) ==
    IF terms = 0 \/ zpow = 0 THEN 0
    ELSE zpow \div k + LnSeries(Mul(zpow, z2), z2, k + 2, terms - 1)

\* np.log(x), x > 0: 2 * atanh((x - 1) / (x + 1))
Ln(x) ==
    LET z == Div(x - ONE, x + ONE)
    IN  2 * LnSeries(z, Mul(z, z), 1, 12)

RECURSIVE ExpSeries(_, _, _, _)
ExpSeries(x, term, k, terms) ==
    IF terms = 0 \/ term = 0 THEN 0
    ELSE term + ExpSeries(x, Mul(term, x) \div k, k + 1, terms - 1)

\* np.exp(x)
Exp(x) == ExpSeries(x, ONE, 1, 16)

\* norm.cdf and norm.pdf at 0.0, 0.1, ..., 4.0 (tabulated, interpolated
\* linearly in between; beyond 4.0 the cdf is 1 and the pdf 0 on the grid)
CdfTable ==
    << 500, 540, 579, 618, 655, 691, 726, 758, 788, 816,
       841, 864, 885, 903, 919, 933, 945, 955, 964, 971,
       977, 982, 986, 989, 992, 994, 995, 997, 997, 998,
       999, 999, 999, 1000, 1000, 1000, 1000, 1000, 1000, 1000, 1000 >>

PdfTable ==
    << 399, 397, 391, 381, 368, 352, 333, 312, 290, 266,
       242, 218, 194, 171, 150, 130, 111, 94, 79, 66,
       54, 44, 35, 28, 22, 18, 14, 10, 8, 6,
       4, 3, 2, 2, 1, 1, 1, 0, 0, 0, 0 >>

TableStep == ONE \div 10

Interp(table, x) ==
    LET i == x \div TableStep
        f == x % TableStep
    IN  IF i + 1 >= Len(table) THEN table[Len(table)]
        ELSE table[i + 1] + ((table[i + 2] - table[i + 1]) * f) \div TableStep

NormCdf(x) == IF x >= 0 THEN Interp(CdfTable, x) ELSE ONE - Interp(CdfTable, -x)
NormPdf(x) == Interp(PdfTable, Abs(x))

\* option_type.lower()
Lower(s) ==
    CASE s = "CALL" -> "call"
      [] s = "PUT"  -> "put"
      [] OTHER      -> s

(***************************************************************************)
(* black_scholes.py                                                        *)
(***************************************************************************)
\* A float quotient keeps growing with sigma; on the grid every sigma at or
\* beyond SigmaSat gives a d1 (d2) past the last table entry of norm.cdf and
\* norm.pdf for the maturities and moneyness used here, and DSat stands for it.
SigmaSat == 20 * ONE
DSat == 8 * ONE

d1(S, K, T, r, sigma) ==
    IF T <= 0 THEN 0
    ELSE IF sigma >= SigmaSat THEN DSat
    ELSE LET numerator   == Ln(Div(S, K)) + Mul(r + Mul(sigma, sigma) \div 2, T)
             denominator == Mul(sigma, Sqrt(T))
         IN  Div(numerator, denominator)

d2(S, K, T, r, sigma) ==
    IF T > 0 /\ sigma >= SigmaSat THEN -DSat
    ELSE d1(S, K, T, r, sigma) - Mul(sigma, Sqrt(T))

black_scholes_raises_case_sensitive(option_type) ==
    option_type \notin {"call", "put"}

\* the option types for which black_scholes_price raises ValueError
black_scholes_raises(option_type) == Lower(option_type) \notin {"call", "put"}

black_scholes_price_undiscounted_put(S, K, T, r, sigma, option_type) ==
    LET d_1 == d1(S, K, T, r, sigma)
        d_2 == d2(S, K, T, r, sigma)
        discount == Exp(-Mul(r, T))
    IN  IF Lower(option_type) = "call"
        THEN Mul(S, NormCdf(d_1)) - Mul(Mul(K, discount), NormCdf(d_2))
        ELSE Mul(K, NormCdf(-d_2)) - Mul(S, NormCdf(-d_1))

black_scholes_price(S, K, T, r, sigma, option_type) ==
    LET d_1 == d1(S, K, T, r, sigma)
        d_2 == d2(S, K, T, r, sigma)
        discount == Exp(-Mul(r, T))
    IN  IF Lower(option_type) = "call"
        THEN Mul(S, NormCdf(d_1)) - Mul(Mul(K, discount), NormCdf(d_2))
        ELSE Mul(Mul(K, discount), NormCdf(-d_2)) - Mul(S, NormCdf(-d_1))

(***************************************************************************)
(* greeks.py                                                               *)
(***************************************************************************)
delta_put_unshifted(S, K, T, r, sigma, option_type) ==
    NormCdf(d1(S, K, T, r, sigma))

delta_put_mirrored(S, K, T, r, sigma, option_type) ==
    LET d_1 == d1(S, K, T, r, sigma)
    IN  IF Lower(option_type) = "call" THEN NormCdf(d_1) ELSE -NormCdf(d_1)

delta(S, K, T, r, sigma, option_type) ==
    LET d_1 == d1(S, K, T, r, sigma)
    IN  IF Lower(option_type) = "call" THEN NormCdf(d_1) ELSE NormCdf(d_1) - ONE

vega(S, K, T, r, sigma) ==
    LET d_1  == d1(S, K, T, r, sigma)
        n_d1 == NormPdf(d_1)
    IN  Mul(Mul(S, Sqrt(T)), n_d1) \div 100

(***************************************************************************)
(* State.                                                                  *)
(***************************************************************************)
VARIABLES
    \* implied_volatility.py
    pc,             \* position of the solver call: "idle", "newton",
                    \* "after_newton", "bisection", "after_bisection",
                    \* "done", "raised"
    entry,          \* the function the caller invoked
    args,           \* its arguments
    sigma,          \* implied_volatility_newton: local sigma
    i,              \* number of loop iterations started by the running loop
    broke,          \* the Newton loop was left by break
    vol_low, vol_high, vol_mid,   \* implied_volatility_bisection: locals
    newton_result,  \* dict returned by implied_volatility_newton
    bisection_result, \* dict returned by implied_volatility_bisection
    ret,            \* value returned by calculate_implied_vol
    error,          \* the exception that ended the call, if any
    last,           \* what the last loop iteration computed (history)
    bisection_evals \* price evaluations made by bisection so far (history)

ivVars == << pc, entry, args, sigma, i, broke, vol_low, vol_high, vol_mid,
             newton_result, bisection_result, ret, error, last,
             bisection_evals >>

\* delta_hedging.py
VARIABLES
    h_pc,           \* position of the simulate_delta_hedging call: "idle",
                    \* "path", "loop", "finish", "done"
    h_args,         \* its arguments
    rng,            \* state of numpy's global generator
    dt, times,      \* simulate_delta_hedging: locals
    stock_path,     \* the path simulate_stock_path builds and returns
    path_i,         \* simulate_stock_path: loop index
    option_kind,    \* simulate_delta_hedging: local option_type
    option_premium,
    deltas, shares, option_values, cash, portfolio_values,
    step,           \* simulate_delta_hedging: loop index i
    trade,          \* delta_change of the last loop iteration (history)
    df, summary     \* the returned DataFrame (one row per step) and dict

hedgeVars == << h_pc, h_args, rng, dt, times, stock_path, path_i, option_kind,
                option_premium, deltas, shares, option_values, cash,
                portfolio_values, step, trade, df, summary >>

\* the callers of the library
VARIABLES
    engine_taus,    \* maturities the rebalancing loop has passed to
                    \* black_scholes_price and delta (history)
    kept,           \* what an earlier simulate_delta_hedging call returned to
                    \* its caller
    runs,           \* the simulate_stock_path calls of the threads
    quote,          \* the parameters (S, K, T, r, sigma) a caller prices
    price_of,       \* what black_scholes_price returned for each option_type
    delta_of,       \* what delta returned for each option_type
    gamma_of,       \* what gamma returned
    parity          \* a put_call_parity_check call: its arguments and result

quoteVars == << quote, price_of, delta_of, gamma_of, parity >>
callerVars == << engine_taus, kept, runs, quoteVars >>

None == [tag |-> "None"]
NaN == [tag |-> "nan"]
Float(x) == [tag |-> "float", value |-> x]

\* defaults of implied_volatility.py; on the integer grid |x| < 1e-6 and
\* |x| < 1e-10 both say x = 0, that is |x| < 1
default_initial_vol == 200
default_tolerance == 1
default_max_iterations == 100
default_vol_low == 1
default_vol_high == 3000
vega_epsilon == 1
sigma_floor == 10

(***************************************************************************)
(* Inputs.                                                                 *)
(***************************************************************************)
SmallCap == 3

SpotValues == {100 * ONE}
StrikeValues == {80 * ONE, 100 * ONE, 150 * ONE}
MaturityValues == {0, 250, ONE}
RateValues == {0, 50}
OptionTypes == {"call", "put", "CALL", "straddle"}
TrueSigmas == {200, 250, 800}
\* observed prices: prices the model itself produces, and prices no
\* volatility produces
MarketPrices(S, K, T, r, option_type) ==
    { black_scholes_price(S, K, T, r, s, option_type) : s \in TrueSigmas }
        \cup {0, 2 * S}
MaxIterationValues == {0, SmallCap, default_max_iterations}
ToleranceValues == {default_tolerance, 50}

(***************************************************************************)
(* implied_volatility.py: implied_volatility_newton                        *)
(***************************************************************************)
SolverResult(vol, conv, iters, err) ==
    [tag |-> "result", implied_vol |-> vol, converged |-> conv,
     iterations |-> iters, final_error |-> err]

newton_converged_inclusive(price_diff, tolerance) == Abs(price_diff) <= tolerance

\* line 72: if abs(price_diff) < tolerance
newton_converged(price_diff, tolerance) == Abs(price_diff) < tolerance

\* line 81: vega(S, K, T, r, sigma) * 100
rescaled_vega(S, K, T, r, s) == vega(S, K, T, r, s) * 100

vega_too_small_unchecked(option_vega) == FALSE

\* line 84: if abs(option_vega) < 1e-10
vega_too_small(option_vega) == Abs(option_vega) < vega_epsilon

\* line 88: sigma - price_diff / option_vega
newton_update_ascending(s, price_diff, option_vega) ==
    s + Div(price_diff, option_vega)

newton_update(s, price_diff, option_vega) == s - Div(price_diff, option_vega)

keep_positive_strict(s) == IF s < 0 THEN sigma_floor ELSE s

\* lines 91-92: if sigma <= 0: sigma = 0.01
keep_positive(s) == IF s <= 0 THEN sigma_floor ELSE s

loop_continues_one_more(k, max_iterations) == k <= max_iterations

\* lines 64, 133: for i in range(max_iterations), after k passes
loop_continues(k, max_iterations) == k < max_iterations

\* where a solver's return statement leads
AfterSolver(fn) == IF entry = "calculate_implied_vol" THEN "after_" \o fn ELSE "done"

Raise(e) ==
    /\ pc' = "raised"
    /\ error' = e

CallNewton ==
    /\ pc = "idle"
    /\ \E S \in SpotValues, K \in StrikeValues, T \in MaturityValues,
          r \in RateValues, o \in OptionTypes, tol \in ToleranceValues,
          mx \in MaxIterationValues :
         \E m \in MarketPrices(S, K, T, r, o) :
            args' = [market_price |-> m, S |-> S, K |-> K, T |-> T, r |-> r,
                     option_type |-> o, initial_vol |-> default_initial_vol,
                     tolerance |-> tol, max_iterations |-> mx]
    /\ entry' = "implied_volatility_newton"
    /\ pc' = "newton"
    /\ sigma' = args'.initial_vol
    /\ i' = 0
    /\ broke' = FALSE
    /\ UNCHANGED << vol_low, vol_high, vol_mid, newton_result,
                    bisection_result, ret, error, last, bisection_evals >>
    /\ UNCHANGED hedgeVars
    /\ UNCHANGED callerVars

\* one pass through the body of the for loop (lines 64-92)
NewtonIteration ==
    /\ pc = "newton"
    /\ ~broke
    /\ loop_continues(i, args.max_iterations)
    /\ i' = i + 1
    /\ IF black_scholes_raises(args.option_type)
       THEN /\ Raise("ValueError")
            /\ last' = [fn |-> "newton", outcome |-> "raised", sigma |-> sigma]
            /\ UNCHANGED << sigma, broke, newton_result >>
       ELSE LET bs_price   == black_scholes_price(args.S, args.K, args.T, args.r,
                                                  sigma, args.option_type)
                price_diff == bs_price - args.market_price
                option_vega == rescaled_vega(args.S, args.K, args.T, args.r, sigma)
            IN  IF newton_converged(price_diff, args.tolerance)
                THEN /\ newton_result' =
                            SolverResult(sigma, TRUE, i + 1, Abs(price_diff))
                     /\ pc' = AfterSolver("newton")
                     /\ last' = [fn |-> "newton", outcome |-> "converged",
                                 sigma |-> sigma, price_diff |-> price_diff]
                     /\ UNCHANGED << sigma, broke, error >>
                ELSE IF vega_too_small(option_vega)
                THEN /\ broke' = TRUE
                     /\ last' = [fn |-> "newton", outcome |-> "break",
                                 sigma |-> sigma, price_diff |-> price_diff,
                                 option_vega |-> option_vega]
                     /\ UNCHANGED << pc, sigma, newton_result, error >>
                ELSE LET updated == newton_update(sigma, price_diff, option_vega)
                     IN  /\ sigma' = keep_positive(updated)
                         /\ last' = [fn |-> "newton", outcome |-> "update",
                                     sigma |-> sigma, price_diff |-> price_diff,
                                     option_vega |-> option_vega,
                                     updated |-> updated]
                         /\ UNCHANGED << pc, broke, newton_result, error >>
    /\ UNCHANGED << entry, args, vol_low, vol_high, vol_mid, bisection_result,
                    ret, bisection_evals >>
    /\ UNCHANGED hedgeVars
    /\ UNCHANGED callerVars

\* the return after the loop (lines 94-100), reached by break or exhaustion
NewtonNoConvergence ==
    /\ pc = "newton"
    /\ broke \/ ~loop_continues(i, args.max_iterations)
    /\ IF black_scholes_raises(args.option_type)
       THEN /\ Raise("ValueError")
            /\ UNCHANGED newton_result
       ELSE /\ newton_result' =
                SolverResult(sigma, FALSE, args.max_iterations,
                    Abs(black_scholes_price(args.S, args.K, args.T, args.r,
                                            sigma, args.option_type)
                        - args.market_price))
            /\ pc' = AfterSolver("newton")
            /\ UNCHANGED error
    /\ UNCHANGED << entry, args, sigma, i, broke, vol_low, vol_high, vol_mid,
                    bisection_result, ret, last, bisection_evals >>
    /\ UNCHANGED hedgeVars
    /\ UNCHANGED callerVars

(***************************************************************************)
(* implied_volatility.py: implied_volatility_bisection                     *)
(***************************************************************************)
midpoint_lower_third(lo, hi) == lo + (hi - lo) \div 3

\* line 134: (vol_low + vol_high) / 2
midpoint(lo, hi) == (lo + hi) \div 2

\* line 141: if abs(diff) < tolerance
bisection_converged(diff, tolerance) == Abs(diff) < tolerance

narrow_swapped(lo, hi, mid, diff) == IF diff > 0 THEN << mid, hi >> ELSE << lo, mid >>

\* lines 150-155: the new << vol_low, vol_high >>
narrow(lo, hi, mid, diff) == IF diff > 0 THEN << lo, mid >> ELSE << mid, hi >>

CallBisection ==
    /\ pc = "idle"
    /\ \E S \in SpotValues, K \in StrikeValues, T \in MaturityValues,
          r \in RateValues, o \in OptionTypes, tol \in ToleranceValues,
          mx \in MaxIterationValues :
         \E m \in MarketPrices(S, K, T, r, o) :
            args' = [market_price |-> m, S |-> S, K |-> K, T |-> T, r |-> r,
                     option_type |-> o, initial_vol |-> default_initial_vol,
                     tolerance |-> tol, max_iterations |-> mx]
    /\ entry' = "implied_volatility_bisection"
    /\ pc' = "bisection"
    /\ vol_low' = default_vol_low
    /\ vol_high' = default_vol_high
    /\ vol_mid' = None
    /\ i' = 0
    /\ UNCHANGED << sigma, broke, newton_result, bisection_result, ret, error,
                    last, bisection_evals >>
    /\ UNCHANGED hedgeVars
    /\ UNCHANGED callerVars

\* one pass through the body of the for loop (lines 133-155)
BisectionIteration ==
    /\ pc = "bisection"
    /\ loop_continues(i, args.max_iterations)
    /\ i' = i + 1
    /\ LET mid == midpoint(vol_low, vol_high)
       IN  /\ vol_mid' = Float(mid)
           /\ IF black_scholes_raises(args.option_type)
              THEN /\ Raise("ValueError")
                   /\ last' = [fn |-> "bisection", outcome |-> "raised"]
                   /\ UNCHANGED << vol_low, vol_high, bisection_result,
                                   bisection_evals >>
              ELSE LET price_mid == black_scholes_price(args.S, args.K, args.T,
                                        args.r, mid, args.option_type)
                       diff == price_mid - args.market_price
                   IN  /\ bisection_evals' = bisection_evals + 1
                       /\ last' = [fn |-> "bisection",
                                   outcome |-> IF bisection_converged(diff, args.tolerance)
                                               THEN "converged" ELSE "narrow",
                                   vol_low |-> vol_low, vol_high |-> vol_high,
                                   vol_mid |-> mid, price_mid |-> price_mid,
                                   diff |-> diff]
                       /\ IF bisection_converged(diff, args.tolerance)
                          THEN /\ bisection_result' =
                                      SolverResult(mid, TRUE, i + 1, Abs(diff))
                               /\ pc' = AfterSolver("bisection")
                               /\ UNCHANGED << vol_low, vol_high, error >>
                          ELSE /\ vol_low' = narrow(vol_low, vol_high, mid, diff)[1]
                               /\ vol_high' = narrow(vol_low, vol_high, mid, diff)[2]
                               /\ UNCHANGED << pc, bisection_result, error >>
    /\ UNCHANGED << entry, args, sigma, broke, newton_result, ret >>
    /\ UNCHANGED hedgeVars
    /\ UNCHANGED callerVars

\* the return after the loop (lines 157-162); vol_mid is unbound when the
\* loop body never ran
BisectionNoConvergence ==
    /\ pc = "bisection"
    /\ ~loop_continues(i, args.max_iterations)
    /\ IF vol_mid = None
       THEN /\ Raise("UnboundLocalError")
            /\ UNCHANGED << bisection_result, bisection_evals >>
       ELSE IF black_scholes_raises(args.option_type)
       THEN /\ Raise("ValueError")
            /\ UNCHANGED << bisection_result, bisection_evals >>
       ELSE /\ bisection_result' =
                SolverResult(vol_mid.value, FALSE, args.max_iterations,
                    Abs(black_scholes_price(args.S, args.K, args.T, args.r,
                                            vol_mid.value, args.option_type)
                        - args.market_price))
            /\ bisection_evals' = bisection_evals + 1
            /\ pc' = AfterSolver("bisection")
            /\ UNCHANGED error
    /\ UNCHANGED << entry, args, sigma, i, broke, vol_low, vol_high, vol_mid,
                    newton_result, ret, last >>
    /\ UNCHANGED hedgeVars
    /\ UNCHANGED callerVars

(***************************************************************************)
(* implied_volatility.py: calculate_implied_vol                            *)
(***************************************************************************)
newton_succeeded_inverted(result) == ~result.converged

newton_succeeded_always(result) == result.tag = "result"

\* line 186: if result['converged'], on Newton's result
newton_succeeded(result) == result.converged

value_after_bisection_last_midpoint(result) == Float(result.implied_vol)

\* lines 192-196: the value returned after bisection
value_after_bisection(result) ==
    IF result.converged THEN Float(result.implied_vol) ELSE NaN

\* line 184: the call of implied_volatility_newton with its defaults
CallCalculateImpliedVol ==
    /\ pc = "idle"
    /\ \E S \in SpotValues, K \in StrikeValues, T \in MaturityValues,
          r \in RateValues, o \in OptionTypes :
         \E m \in MarketPrices(S, K, T, r, o) :
            args' = [market_price |-> m, S |-> S, K |-> K, T |-> T, r |-> r,
                     option_type |-> o, initial_vol |-> default_initial_vol,
                     tolerance |-> default_tolerance,
                     max_iterations |-> default_max_iterations]
    /\ entry' = "calculate_implied_vol"
    /\ pc' = "newton"
    /\ sigma' = args'.initial_vol
    /\ i' = 0
    /\ broke' = FALSE
    /\ UNCHANGED << vol_low, vol_high, vol_mid, newton_result,
                    bisection_result, ret, error, last, bisection_evals >>
    /\ UNCHANGED hedgeVars
    /\ UNCHANGED callerVars

\* lines 186-190: return Newton's value, or call implied_volatility_bisection
AfterNewton ==
    /\ pc = "after_newton"
    /\ IF newton_succeeded(newton_result)
       THEN /\ ret' = Float(newton_result.implied_vol)
            /\ pc' = "done"
            /\ UNCHANGED << i, vol_low, vol_high, vol_mid >>
       ELSE /\ pc' = "bisection"
            /\ vol_low' = default_vol_low
            /\ vol_high' = default_vol_high
            /\ vol_mid' = None
            /\ i' = 0
            /\ UNCHANGED ret
    /\ UNCHANGED << entry, args, sigma, broke, newton_result, bisection_result,
                    error, last, bisection_evals >>
    /\ UNCHANGED hedgeVars
    /\ UNCHANGED callerVars

\* lines 192-196: return bisection's value, or np.nan
AfterBisection ==
    /\ pc = "after_bisection"
    /\ ret' = value_after_bisection(bisection_result)
    /\ pc' = "done"
    /\ UNCHANGED << entry, args, sigma, i, broke, vol_low, vol_high, vol_mid,
                    newton_result, bisection_result, error, last,
                    bisection_evals >>
    /\ UNCHANGED hedgeVars
    /\ UNCHANGED callerVars

(***************************************************************************)
(* delta_hedging.py                                                        *)
(***************************************************************************)
IntSeed(x) == [tag |-> "int", value |-> x]

\* Python arrays are indexed from 0, sequences from 1
At(arr, k) == arr[k + 1]
Put(arr, k, v) == [arr EXCEPT ![k + 1] = v]
Zeros(n) == [k \in 1..n |-> 0]

\* numpy's global generator: np.random.seed fixes the state, each
\* standard_normal() returns the variate of the state and advances it
RngStates == 0..7
NormalTable == << -1645, -1036, -524, -126, 126, 524, 1036, 1645 >>
seed_not_applied(seed) == rng

seed_state(seed) == seed % 8
standard_normal(state) == NormalTable[state + 1]
advance(state) == (5 * state + 3) % 8

\* line 151: tau > 0.0001, which on the integer grid says tau > 0
expiry_epsilon == 0

MaxSteps == 3

HedgeSpots == {90 * ONE, 100 * ONE, 110 * ONE}
HedgeStrikes == {100 * ONE}
HedgeMaturities == {0, 250, ONE}
HedgeRates == {0, 50}
HedgeSigmas == {200, 400}
Positions == {"short_call", "short_put", "SHORT_CALL"}
Seeds == {None, IntSeed(0), IntSeed(42)}

\* line 120: 'call' in position.lower()
mentions_call(position) == position \in {"short_call", "SHORT_CALL", "call"}

linspace_without_endpoint(T, n) == [k \in 1..(n + 1) |-> ((k - 1) * T) \div (n + 1)]

\* line 114: np.linspace(0, T, n_steps + 1)
linspace(T, n) == [k \in 1..(n + 1) |-> ((k - 1) * T + n \div 2) \div n]

gbm_step_euler(prev, r, s, d, Z) ==
    Mul(prev, ONE + Mul(r, d) + Mul(Mul(s, Sqrt(d)), Z))

\* line 67: path[i-1] * np.exp((r - 0.5 * sigma**2) * dt + sigma * np.sqrt(dt) * Z)
gbm_step(prev, r, s, d, Z) ==
    Mul(prev, Exp(Mul(r - Mul(s, s) \div 2, d) + Mul(Mul(s, Sqrt(d)), Z)))

\* lines 157, 160, 193, 195: the payoff at expiry
intrinsic(S, K, kind) == IF kind = "call" THEN Max(S - K, 0) ELSE Max(K - S, 0)

expiry_delta_inclusive(S, K, kind) ==
    IF kind = "call" THEN (IF S >= K THEN ONE ELSE 0)
                     ELSE (IF S <= K THEN -ONE ELSE 0)

\* lines 158, 161: the delta at expiry
expiry_delta(S, K, kind) ==
    IF kind = "call" THEN (IF S > K THEN ONE ELSE 0)
                     ELSE (IF S < K THEN -ONE ELSE 0)

traded_quantity_whole_delta(new_delta, shares_held) == new_delta

\* lines 164-165: delta_change
traded_quantity(new_delta, shares_held) == new_delta - shares_held

initial_cash_without_premium(premium, shares0, S0) == -Mul(shares0, S0)

\* line 139: cash[0]
initial_cash(premium, shares0, S0) == premium - Mul(shares0, S0)

next_cash_without_interest(prev_cash, r, d, delta_change, S) ==
    prev_cash - Mul(delta_change, S)

\* lines 169-173: cash[i]
next_cash(prev_cash, r, d, delta_change, S) ==
    LET interest == Mul(prev_cash, Exp(Mul(r, d)) - ONE)
        transaction_cost == Mul(delta_change, S)
    IN  prev_cash + interest - transaction_cost

portfolio_value_without_option(c, held, S, option_value) == c + Mul(held, S)

\* lines 142, 177: portfolio_values[i]
portfolio_value(c, held, S, option_value) == c + Mul(held, S) - option_value

\* lines 113-117 and simulate_stock_path lines 54-59
CallSimulateDeltaHedging ==
    /\ h_pc = "idle"
    /\ \E S0 \in HedgeSpots, K \in HedgeStrikes, T \in HedgeMaturities,
          r \in HedgeRates, s \in HedgeSigmas, n \in 1..MaxSteps,
          p \in Positions, sd \in Seeds :
         h_args' = [S0 |-> S0, K |-> K, T |-> T, r |-> r, sigma |-> s,
                    n_steps |-> n, position |-> p, seed |-> sd]
    /\ dt' = h_args'.T \div h_args'.n_steps
    /\ times' = linspace(h_args'.T, h_args'.n_steps)
    /\ rng' = IF h_args'.seed # None THEN seed_state(h_args'.seed.value) ELSE rng
    /\ stock_path' = Put(Zeros(h_args'.n_steps + 1), 0, h_args'.S0)
    /\ path_i' = 1
    /\ h_pc' = "path"
    /\ UNCHANGED << option_kind, option_premium, deltas, shares, option_values,
                    cash, portfolio_values, step, trade, df, summary >>
    /\ engine_taus' = {}
    /\ UNCHANGED ivVars
    /\ UNCHANGED << kept, runs, quoteVars >>

\* simulate_stock_path, one pass through the loop (lines 62-67)
PathStep ==
    /\ h_pc = "path"
    /\ path_i <= h_args.n_steps
    /\ LET Z == standard_normal(rng)
       IN  stock_path' = Put(stock_path, path_i,
                gbm_step(At(stock_path, path_i - 1), h_args.r, h_args.sigma, dt, Z))
    /\ rng' = advance(rng)
    /\ path_i' = path_i + 1
    /\ UNCHANGED << h_pc, h_args, dt, times, option_kind, option_premium,
                    deltas, shares, option_values, cash, portfolio_values,
                    step, trade, df, summary >>
    /\ UNCHANGED ivVars
    /\ UNCHANGED callerVars

\* the path is returned; lines 119-142
Inception ==
    /\ h_pc = "path"
    /\ path_i > h_args.n_steps
    /\ LET n    == h_args.n_steps
           kind == IF mentions_call(h_args.position) THEN "call" ELSE "put"
           premium == black_scholes_price(h_args.S0, h_args.K, h_args.T,
                                          h_args.r, h_args.sigma, kind)
           delta0 == delta(h_args.S0, h_args.K, h_args.T, h_args.r,
                           h_args.sigma, kind)
           shares0 == delta0
           cash0 == initial_cash(premium, shares0, h_args.S0)
       IN  /\ option_kind' = kind
           /\ option_premium' = premium
           /\ deltas' = Put(Zeros(n + 1), 0, delta0)
           /\ shares' = Put(Zeros(n + 1), 0, shares0)
           /\ cash' = Put(Zeros(n + 1), 0, cash0)
           /\ option_values' = Put(Zeros(n + 1), 0, premium)
           /\ portfolio_values' = Put(Zeros(n + 1), 0,
                  portfolio_value(cash0, shares0, h_args.S0, premium))
    /\ step' = 1
    /\ h_pc' = "loop"
    /\ UNCHANGED << h_args, rng, dt, times, stock_path, path_i, trade, df,
                    summary >>
    /\ UNCHANGED ivVars
    /\ UNCHANGED callerVars

\* one pass through the rebalancing loop (lines 145-177)
HedgeStep ==
    /\ h_pc = "loop"
    /\ step <= h_args.n_steps
    /\ LET S   == At(stock_path, step)
           t   == At(times, step)
           tau == h_args.T - t
           near_expiry == ~(tau > expiry_epsilon)
           option_value ==
               IF near_expiry THEN intrinsic(S, h_args.K, option_kind)
               ELSE black_scholes_price(S, h_args.K, tau, h_args.r,
                                        h_args.sigma, option_kind)
           new_delta ==
               IF near_expiry THEN expiry_delta(S, h_args.K, option_kind)
               ELSE delta(S, h_args.K, tau, h_args.r, h_args.sigma, option_kind)
           delta_change == traded_quantity(new_delta, At(shares, step - 1))
           new_cash == next_cash(At(cash, step - 1), h_args.r, dt, delta_change, S)
       IN  /\ option_values' = Put(option_values, step, option_value)
           /\ deltas' = Put(deltas, step, new_delta)
           /\ shares' = Put(shares, step, new_delta)
           /\ cash' = Put(cash, step, new_cash)
           /\ portfolio_values' = Put(portfolio_values, step,
                  portfolio_value(new_cash, new_delta, S, option_value))
           /\ trade' = delta_change
           /\ engine_taus' = IF near_expiry THEN engine_taus
                              ELSE engine_taus \cup {tau}
    /\ step' = step + 1
    /\ UNCHANGED << h_pc, h_args, rng, dt, times, stock_path, path_i,
                    option_kind, option_premium, df, summary >>
    /\ UNCHANGED ivVars
    /\ UNCHANGED << kept, runs, quoteVars >>

\* lines 179-212: the DataFrame and the summary
Finish ==
    /\ h_pc = "loop"
    /\ step > h_args.n_steps
    /\ df' = [k \in 1..(h_args.n_steps + 1) |->
                [time |-> times[k], stock_price |-> stock_path[k],
                 delta |-> deltas[k], shares_held |-> shares[k],
                 option_value |-> option_values[k], cash |-> cash[k],
                 portfolio_value |-> portfolio_values[k]]]
    /\ LET final_S == At(stock_path, h_args.n_steps)
           option_payoff == intrinsic(final_S, h_args.K, option_kind)
           hedge_pnl == option_premium - option_payoff
           portfolio_final == At(portfolio_values, h_args.n_steps)
       IN  summary' =
             [option_premium |-> option_premium,
              final_stock_price |-> final_S,
              option_payoff |-> option_payoff,
              theoretical_pnl |-> hedge_pnl,
              hedge_portfolio_value |-> portfolio_final,
              hedging_error |-> portfolio_final,
              error_percent |-> IF option_premium > 0
                                THEN Div(Abs(portfolio_final), option_premium) * 100
                                ELSE 0]
    /\ h_pc' = "done"
    /\ UNCHANGED << h_args, rng, dt, times, stock_path, path_i, option_kind,
                    option_premium, deltas, shares, option_values, cash,
                    portfolio_values, step, trade >>
    /\ UNCHANGED ivVars
    /\ UNCHANGED callerVars

InitHedge ==
    /\ h_pc = "idle"
    /\ h_args = None
    /\ rng \in RngStates
    /\ dt = 0
    /\ times = << >>
    /\ stock_path = << >>
    /\ path_i = 0
    /\ option_kind = "none"
    /\ option_premium = 0
    /\ deltas = << >>
    /\ shares = << >>
    /\ option_values = << >>
    /\ cash = << >>
    /\ portfolio_values = << >>
    /\ step = 0
    /\ trade = 0
    /\ df = << >>
    /\ summary = None

NextHedge ==
    \/ CallSimulateDeltaHedging
    \/ PathStep
    \/ Inception
    \/ HedgeStep
    \/ Finish

InitIV ==
    /\ pc = "idle"
    /\ entry = "none"
    /\ args = None
    /\ sigma = 0
    /\ i = 0
    /\ broke = FALSE
    /\ vol_low = 0
    /\ vol_high = 0
    /\ vol_mid = None
    /\ newton_result = None
    /\ bisection_result = None
    /\ ret = None
    /\ error = "none"
    /\ last = None
    /\ bisection_evals = 0

NextIV ==
    \/ CallNewton
    \/ NewtonIteration
    \/ NewtonNoConvergence
    \/ CallBisection
    \/ BisectionIteration
    \/ BisectionNoConvergence
    \/ CallCalculateImpliedVol
    \/ AfterNewton
    \/ AfterBisection

(***************************************************************************)
(* A caller of black_scholes.py and greeks.py: one set of parameters,      *)
(* priced and differentiated for each option_type.                         *)
(***************************************************************************)
Raised(e) == [tag |-> "raised", error |-> e]

QuoteSpots == {100 * ONE}
QuoteStrikes == {80 * ONE, 100 * ONE, 120 * ONE}
QuoteMaturities == {0, 250, ONE}
QuoteRates == {0, 50}
QuoteSigmas == {200, 400}
QuoteOptionTypes == {"call", "put", "CALL", "PUT", "straddle"}

Quotes ==
    [S : QuoteSpots, K : QuoteStrikes, T : QuoteMaturities, r : QuoteRates,
     sigma : QuoteSigmas]

\* greeks.py lines 78-83: the divisor S * sigma * sqrt(T) and the quotient
gamma_divisor(S, K, T, r, s) == Mul(Mul(S, s), Sqrt(T))

gamma(S, K, T, r, s) ==
    LET d_1  == d1(S, K, T, r, s)
        n_d1 == NormPdf(d_1)
    IN  Div(n_d1, gamma_divisor(S, K, T, r, s))

\* black_scholes.py lines 103-121: the price returned, or ValueError
CallBlackScholesPrice(o) ==
    /\ quote # None
    /\ price_of[o] = None
    /\ price_of' = [price_of EXCEPT ![o] =
           IF black_scholes_raises(o) THEN Raised("ValueError")
           ELSE Float(black_scholes_price(quote.S, quote.K, quote.T, quote.r,
                                          quote.sigma, o))]
    /\ UNCHANGED << quote, delta_of, gamma_of, parity >>
    /\ UNCHANGED << engine_taus, kept, runs >>
    /\ UNCHANGED << ivVars, hedgeVars >>

\* greeks.py lines 46-51: every option_type that is not 'call' takes the
\* else branch
CallDelta(o) ==
    /\ quote # None
    /\ delta_of[o] = None
    /\ delta_of' = [delta_of EXCEPT ![o] =
           Float(delta(quote.S, quote.K, quote.T, quote.r, quote.sigma, o))]
    /\ UNCHANGED << quote, price_of, gamma_of, parity >>
    /\ UNCHANGED << engine_taus, kept, runs >>
    /\ UNCHANGED << ivVars, hedgeVars >>

\* greeks.py lines 78-83
CallGamma ==
    /\ quote # None
    /\ gamma_of = None
    /\ gamma_of' =
           [value   |-> gamma(quote.S, quote.K, quote.T, quote.r, quote.sigma),
            divisor |-> gamma_divisor(quote.S, quote.K, quote.T, quote.r,
                                      quote.sigma)]
    /\ UNCHANGED << quote, price_of, delta_of, parity >>
    /\ UNCHANGED << engine_taus, kept, runs >>
    /\ UNCHANGED << ivVars, hedgeVars >>

NextQuotes ==
    \/ \E o \in QuoteOptionTypes : CallBlackScholesPrice(o)
    \/ \E o \in QuoteOptionTypes : CallDelta(o)
    \/ CallGamma

(***************************************************************************)
(* Threads that call simulate_stock_path; np.random is the generator of    *)
(* the process, the variable rng.                                          *)
(***************************************************************************)
Threads == {1, 2}
MaxPathSteps == 2
ThreadSeeds == {None, IntSeed(0), IntSeed(42)}
IdleRun == [pc |-> "idle", seed |-> None, n_steps |-> 0, path |-> << >>, k |-> 0]

\* the arguments the threads share
path_S0 == 100 * ONE
path_T == ONE
path_r == 50
path_sigma == 200

\* lines 54-59: np.random.seed(seed), dt, path[0]
CallSimulateStockPath(t) ==
    /\ runs[t].pc = "idle"
    /\ \E sd \in ThreadSeeds, n \in 1..MaxPathSteps :
         /\ runs' = [runs EXCEPT ![t] =
                [pc |-> "loop", seed |-> sd, n_steps |-> n,
                 path |-> Put(Zeros(n + 1), 0, path_S0), k |-> 1]]
         /\ rng' = IF sd # None THEN seed_state(sd.value) ELSE rng
    /\ UNCHANGED << h_pc, h_args, dt, times, stock_path, path_i, option_kind,
                    option_premium, deltas, shares, option_values, cash,
                    portfolio_values, step, trade, df, summary >>
    /\ UNCHANGED << engine_taus, kept, quoteVars >>
    /\ UNCHANGED ivVars

\* lines 62-67: one pass of the loop; the draw reads and advances np.random
DrawStep(t) ==
    /\ runs[t].pc = "loop"
    /\ runs[t].k <= runs[t].n_steps
    /\ LET Z == standard_normal(rng)
           d == path_T \div runs[t].n_steps
           S == gbm_step(At(runs[t].path, runs[t].k - 1), path_r, path_sigma, d, Z)
       IN  runs' = [runs EXCEPT ![t].path = Put(@, runs[t].k, S),
                                ![t].k = @ + 1]
    /\ rng' = advance(rng)
    /\ UNCHANGED << h_pc, h_args, dt, times, stock_path, path_i, option_kind,
                    option_premium, deltas, shares, option_values, cash,
                    portfolio_values, step, trade, df, summary >>
    /\ UNCHANGED << engine_taus, kept, quoteVars >>
    /\ UNCHANGED ivVars

\* line 69: return path
ReturnPath(t) ==
    /\ runs[t].pc = "loop"
    /\ runs[t].k > runs[t].n_steps
    /\ runs' = [runs EXCEPT ![t].pc = "returned"]
    /\ UNCHANGED hedgeVars
    /\ UNCHANGED << engine_taus, kept, quoteVars >>
    /\ UNCHANGED ivVars

NextThreads ==
    \/ \E t \in Threads : CallSimulateStockPath(t)
    \/ \E t \in Threads : DrawStep(t)
    \/ \E t \in Threads : ReturnPath(t)

(***************************************************************************)
(* A caller that keeps what simulate_delta_hedging returned and calls it   *)
(* again with the same arguments, other simulations running in between.    *)
(***************************************************************************)
\* line 212: return df, summary
ReturnToCaller ==
    /\ h_pc = "done"
    /\ kept' = [args |-> h_args, df |-> df, summary |-> summary]
    /\ h_pc' = "returned"
    /\ UNCHANGED << h_args, rng, dt, times, stock_path, path_i, option_kind,
                    option_premium, deltas, shares, option_values, cash,
                    portfolio_values, step, trade, df, summary >>
    /\ UNCHANGED << engine_taus, runs, quoteVars >>
    /\ UNCHANGED ivVars

\* simulate_stock_path lines 54-64 in calls whose results this caller does
\* not keep: they leave np.random in any state
OtherCalls ==
    /\ h_pc = "returned"
    /\ rng' \in RngStates \ {rng}
    /\ UNCHANGED << h_pc, h_args, dt, times, stock_path, path_i, option_kind,
                    option_premium, deltas, shares, option_values, cash,
                    portfolio_values, step, trade, df, summary >>
    /\ UNCHANGED callerVars
    /\ UNCHANGED ivVars

\* lines 113-117 and simulate_stock_path lines 54-59, with the arguments of
\* the earlier call
CallAgain ==
    /\ h_pc = "returned"
    /\ h_args' = kept.args
    /\ dt' = h_args'.T \div h_args'.n_steps
    /\ times' = linspace(h_args'.T, h_args'.n_steps)
    /\ rng' = IF h_args'.seed # None THEN seed_state(h_args'.seed.value) ELSE rng
    /\ stock_path' = Put(Zeros(h_args'.n_steps + 1), 0, h_args'.S0)
    /\ path_i' = 1
    /\ h_pc' = "path"
    /\ engine_taus' = {}
    /\ UNCHANGED << option_kind, option_premium, deltas, shares, option_values,
                    cash, portfolio_values, step, trade, df, summary >>
    /\ UNCHANGED << kept, runs, quoteVars >>
    /\ UNCHANGED ivVars

NextRepeat ==
    \/ CallSimulateDeltaHedging
    \/ PathStep
    \/ Inception
    \/ HedgeStep
    \/ Finish
    \/ ReturnToCaller
    \/ OtherCalls
    \/ CallAgain

(***************************************************************************)
(* A caller of put_call_parity_check.                                      *)
(***************************************************************************)
ParitySpots == {-100 * ONE, 0, 100 * ONE}
ParityStrikes == {100 * ONE}
ParityMaturities == {0, ONE}
ParityRates == {0, 50}
ParityCallPrices == {0, 999, ONE, 10451}
ParityPutPrices == {0, 5574}

ParityCalls ==
    [S : ParitySpots, K : ParityStrikes, T : ParityMaturities, r : ParityRates,
     call_price : ParityCallPrices, put_price : ParityPutPrices,
     result : {None}]

\* line 152: tolerance = 0.01 * S
parity_tolerance(S) == Mul(ONE \div 100, S)

parity_is_valid_inclusive(difference, tolerance) == difference <= tolerance

\* line 153: is_valid = difference < tolerance
parity_is_valid(difference, tolerance) == difference < tolerance

\* lines 145-164; the messages are written without their accents
PutCallParityCheck ==
    /\ parity # None
    /\ parity.result = None
    /\ LET left_side  == parity.call_price
                            + Mul(parity.K, Exp(-Mul(parity.r, parity.T)))
           right_side == parity.put_price + parity.S
           difference == Abs(left_side - right_side)
           is_valid   == parity_is_valid(difference, parity_tolerance(parity.S))
       IN  parity' = [parity EXCEPT !.result =
               [left_side |-> left_side, right_side |-> right_side,
                difference |-> difference, is_valid |-> is_valid,
                message |-> IF is_valid THEN "Parite respectee"
                            ELSE "Violation de la parite Put-Call"]]
    /\ UNCHANGED << quote, price_of, delta_of, gamma_of >>
    /\ UNCHANGED << engine_taus, kept, runs >>
    /\ UNCHANGED << ivVars, hedgeVars >>

NextParity == PutCallParityCheck

InitCallers ==
    /\ engine_taus = {}
    /\ kept = None
    /\ runs = [t \in Threads |-> IdleRun]
    /\ quote = None
    /\ price_of = [o \in QuoteOptionTypes |-> None]
    /\ delta_of = [o \in QuoteOptionTypes |-> None]
    /\ gamma_of = None
    /\ parity = None

vars == << ivVars, hedgeVars, callerVars >>

Init ==
    /\ InitIV
    /\ InitHedge
    /\ InitCallers

\* a solver call does not read the generator: one initial state is enough
InitSolver ==
    /\ Init
    /\ rng = 0

\* the implied-volatility solver alone
SpecIV == InitSolver /\ [][NextIV]_vars

\* the hedging simulation alone
SpecHedge == Init /\ [][NextHedge]_vars

\* the caller that repeats a simulation
SpecRepeat == Init /\ [][NextRepeat]_vars

\* two threads that simulate paths
SpecThreads == Init /\ [][NextThreads]_vars

\* the caller of the pricing and Greeks functions, for every set of parameters
InitQuotes ==
    /\ InitIV
    /\ InitHedge
    /\ rng = 0
    /\ engine_taus = {}
    /\ kept = None
    /\ runs = [t \in Threads |-> IdleRun]
    /\ quote \in Quotes
    /\ price_of = [o \in QuoteOptionTypes |-> None]
    /\ delta_of = [o \in QuoteOptionTypes |-> None]
    /\ gamma_of = None
    /\ parity = None

SpecQuotes == InitQuotes /\ [][NextQuotes]_vars

\* the caller of put_call_parity_check, for every set of arguments
InitParity ==
    /\ InitIV
    /\ InitHedge
    /\ rng = 0
    /\ engine_taus = {}
    /\ kept = None
    /\ runs = [t \in Threads |-> IdleRun]
    /\ quote = None
    /\ price_of = [o \in QuoteOptionTypes |-> None]
    /\ delta_of = [o \in QuoteOptionTypes |-> None]
    /\ gamma_of = None
    /\ parity \in ParityCalls

SpecParity == InitParity /\ [][NextParity]_vars

(***************************************************************************)
(* Properties of simulate_delta_hedging.                                   *)
(***************************************************************************)
\* the steps whose row of the arrays has been written
Recorded == IF h_pc \in {"loop", "done"} THEN 0..(step - 1) ELSE {}

\* C1: at every recorded step i the recorded portfolio value is
\* cash_i + shares_held_i * stock_price_i - option_value_i of the same step,
\* in the arrays and in the rows of the returned DataFrame.
C1_SelfFinancingIdentity ==
    /\ \A k \in Recorded :
          At(portfolio_values, k) =
              At(cash, k) + Mul(At(shares, k), At(stock_path, k))
                  - At(option_values, k)
    /\ h_pc = "done" =>
          /\ Len(df) = h_args.n_steps + 1
          /\ \A k \in 1..Len(df) :
                df[k].portfolio_value =
                    df[k].cash + Mul(df[k].shares_held, df[k].stock_price)
                        - df[k].option_value

C1_Witness ==
    /\ h_pc = "done"
    /\ h_args.n_steps >= 2
    /\ \A k \in 1..h_args.n_steps : At(shares, k) # At(shares, k - 1)
    /\ At(portfolio_values, h_args.n_steps) # 0
    /\ At(option_values, 1) > 0

\* C2: at step 0 the hedge holds delta_0 shares, cash is the premium less the
\* cost of those shares, the option is worth the premium, and the portfolio
\* is worth 0.
C2_Inception ==
    h_pc \in {"loop", "done"} =>
        /\ At(shares, 0) = At(deltas, 0)
        /\ At(deltas, 0) = delta(h_args.S0, h_args.K, h_args.T, h_args.r,
                                 h_args.sigma, option_kind)
        /\ option_premium = black_scholes_price(h_args.S0, h_args.K, h_args.T,
                                h_args.r, h_args.sigma, option_kind)
        /\ At(cash, 0) = option_premium - Mul(At(shares, 0), h_args.S0)
        /\ At(option_values, 0) = option_premium
        /\ At(portfolio_values, 0) = 0

C2_Witness ==
    /\ h_pc = "loop"
    /\ step = 1
    /\ option_kind = "put"
    /\ option_premium > 0
    /\ At(shares, 0) < 0
    /\ At(cash, 0) > option_premium

\* C3: at every step i >= 1 the cash is the previous cash accrued at the
\* risk-free rate over dt less the cost of the shares traded at S_i; nothing
\* else enters it.
C3_CashEvolution ==
    \A k \in Recorded \ {0} :
        At(cash, k) =
            Mul(At(cash, k - 1), Exp(Mul(h_args.r, dt)))
                - Mul(At(deltas, k) - At(shares, k - 1), At(stock_path, k))

C3_Witness ==
    /\ h_pc = "done"
    /\ h_args.n_steps >= 2
    /\ h_args.r > 0
    /\ trade # 0
    /\ At(cash, 1) # At(cash, 0)
    /\ At(cash, 2) # At(cash, 1)
    /\ Mul(At(cash, 1), Exp(Mul(h_args.r, dt))) # At(cash, 1)

(***************************************************************************)
(* Properties of the implied-volatility solver.                            *)
(***************************************************************************)
InCalculate == entry = "calculate_implied_vol"
NewtonReturned == newton_result # None
BisectionReturned == bisection_result # None
BisectionStarted ==
    \/ pc \in {"bisection", "after_bisection"}
    \/ bisection_evals > 0
    \/ BisectionReturned
    \/ vol_mid # None
PriceError(s) ==
    Abs(black_scholes_price(args.S, args.K, args.T, args.r, s, args.option_type)
        - args.market_price)

\* C4: in calculate_implied_vol bisection starts only after Newton-Raphson
\* has returned a non-converged result; when Newton converges its value is
\* returned and bisection never starts.
C4_NewtonFirst ==
    InCalculate =>
        /\ BisectionStarted => NewtonReturned /\ ~newton_result.converged
        /\ pc = "newton" => ~NewtonReturned /\ ~BisectionStarted
        /\ NewtonReturned /\ newton_result.converged /\ pc = "done" =>
              /\ ret = Float(newton_result.implied_vol)
              /\ ~BisectionStarted

C4_Witness ==
    /\ InCalculate
    /\ pc = "done"
    /\ newton_result.converged
    /\ newton_result.iterations > 1
    /\ ret = Float(newton_result.implied_vol)
    /\ ~BisectionStarted

\* C5: when Newton-Raphson and bisection both return non-converged,
\* calculate_implied_vol returns NaN without raising; the last midpoint of
\* bisection is not returned.
C5_NaNOnTotalFailure ==
    InCalculate /\ NewtonReturned /\ BisectionReturned
        /\ ~newton_result.converged /\ ~bisection_result.converged =>
            /\ pc \in {"after_bisection", "done"}
            /\ error = "none"
            /\ pc = "done" =>
                  /\ ret = NaN
                  /\ ret # Float(bisection_result.implied_vol)

C5_Witness ==
    /\ InCalculate
    /\ pc = "done"
    /\ ~newton_result.converged
    /\ ~bisection_result.converged
    /\ bisection_result.iterations = default_max_iterations
    /\ bisection_evals > default_max_iterations
    /\ ret = NaN

C6_ResultShape ==
    /\ pc = "newton" /\ i = 0 => sigma = default_initial_vol
    /\ NewtonReturned /\ newton_result.converged =>
          /\ last.fn = "newton"
          /\ last.outcome = "converged"
          /\ newton_result.implied_vol = last.sigma
          /\ newton_result.implied_vol = sigma
          /\ newton_result.iterations = i
          /\ newton_result.iterations >= 1
          /\ newton_result.final_error = Abs(last.price_diff)
          /\ newton_result.final_error = PriceError(newton_result.implied_vol)
          /\ newton_result.final_error < args.tolerance

C6_StopsAtFirst ==
    pc = "newton" /\ ~broke /\ i < args.max_iterations
        /\ ~black_scholes_raises(args.option_type)
        /\ PriceError(sigma) < args.tolerance =>
            /\ pc' # "newton"
            /\ newton_result' = SolverResult(sigma, TRUE, i + 1, PriceError(sigma))

\* C6: Newton-Raphson starts at sigma = 0.20; a converged result carries the
\* sigma that was just priced, the number of the iteration and its absolute
\* error, which is below the tolerance; and the iteration whose price is
\* within the tolerance returns at once.
C6_NewtonConvergence == [](C6_ResultShape) /\ [][C6_StopsAtFirst]_vars

C6_Witness ==
    /\ entry = "implied_volatility_newton"
    /\ pc = "done"
    /\ newton_result.converged
    /\ newton_result.iterations = 3
    /\ newton_result.implied_vol # default_initial_vol
    /\ args.tolerance = default_tolerance

InLoop == pc \in {"newton", "bisection"}

C7_Bounded ==
    /\ pc # "idle" => i <= args.max_iterations
    /\ pc \in {"idle", "newton", "after_newton", "bisection", "after_bisection",
               "done", "raised"}
    /\ pc = "after_newton" => NewtonReturned
    /\ pc = "after_bisection" => BisectionReturned
    /\ pc = "done" => error = "none"
    /\ pc = "done" /\ entry = "implied_volatility_newton" => NewtonReturned
    /\ pc = "done" /\ entry = "implied_volatility_bisection" => BisectionReturned
    /\ pc = "done" /\ InCalculate => ret # None
    /\ NewtonReturned /\ ~newton_result.converged =>
          /\ newton_result.implied_vol = sigma
          /\ newton_result.final_error = PriceError(sigma)

C7_Progress == InLoop /\ pc' = pc => i' = i + 1

\* C7: each loop makes at most max_iterations passes and every pass counts,
\* so each loop ends; a call that ends has returned, and a Newton-Raphson call
\* that ends without convergence returns converged = false with the final
\* sigma and its residual error.
C7_Termination == [](C7_Bounded) /\ [][C7_Progress]_vars

C7_Witness ==
    /\ entry = "implied_volatility_newton"
    /\ pc = "done"
    /\ ~newton_result.converged
    /\ ~broke
    /\ i = args.max_iterations
    /\ args.max_iterations = default_max_iterations
    /\ newton_result.final_error > 0

NewtonLast == last # None /\ last.fn = "newton"

C8_Guarded ==
    /\ NewtonLast /\ last.outcome = "update" => Abs(last.option_vega) >= vega_epsilon
    /\ NewtonLast /\ last.outcome = "break" =>
          /\ Abs(last.option_vega) < vega_epsilon
          /\ broke
          /\ sigma = last.sigma
          /\ NewtonReturned =>
                /\ ~newton_result.converged
                /\ newton_result.implied_vol = last.sigma

C8_Aborts ==
    /\ pc = "newton" /\ ~broke /\ i < args.max_iterations
           /\ ~black_scholes_raises(args.option_type)
           /\ ~(PriceError(sigma) < args.tolerance)
           /\ Abs(vega(args.S, args.K, args.T, args.r, sigma) * 100) < vega_epsilon =>
               /\ sigma' = sigma
               /\ broke'
               /\ last'.outcome = "break"
    /\ pc = "newton" /\ broke =>
           /\ pc' # "newton"
           /\ newton_result' = SolverResult(sigma, FALSE, args.max_iterations,
                                            PriceError(sigma))

\* C8: when the rescaled vega is below 1e-10 in absolute value the loop is
\* left without dividing: sigma is unchanged and a non-converged result with
\* that sigma is returned; an update only ever divides by a vega of at least
\* 1e-10 in absolute value.
C8_VegaGuard == [](C8_Guarded) /\ [][C8_Aborts]_vars

C8_Witness ==
    /\ entry = "implied_volatility_newton"
    /\ pc = "done"
    /\ broke
    /\ i > 1
    /\ last.outcome = "break"
    /\ last.option_vega = 0
    /\ ~newton_result.converged
    /\ newton_result.implied_vol = last.sigma

\* C9: an update that gives sigma <= 0 is replaced by 0.01 and the loop goes
\* on; every sigma priced in the loop and every sigma returned is positive.
C9_SigmaPositive ==
    /\ pc = "newton" => sigma > 0
    /\ NewtonLast => last.sigma > 0
    /\ NewtonReturned => newton_result.implied_vol > 0
    /\ NewtonLast /\ last.outcome = "update" =>
          /\ sigma = IF last.updated <= 0 THEN sigma_floor ELSE last.updated
          /\ last.updated <= 0 /\ ~NewtonReturned /\ error = "none" =>
                pc = "newton" /\ ~broke

C9_Witness ==
    /\ pc = "newton"
    /\ NewtonLast
    /\ last.outcome = "update"
    /\ last.updated = 0
    /\ sigma = sigma_floor
    /\ i < args.max_iterations

\* C10: a pass of bisection that does not converge prices the midpoint
\* (vol_low + vol_high) / 2; a price above the market price moves the upper
\* bound to the midpoint, any other price moves the lower bound to it, and
\* the other bound stays.
C10_BisectionStep ==
    last # None /\ last.fn = "bisection" /\ last.outcome = "narrow" =>
        /\ 2 * last.vol_mid <= last.vol_low + last.vol_high
        /\ last.vol_low + last.vol_high <= 2 * last.vol_mid + 1
        /\ last.price_mid = black_scholes_price(args.S, args.K, args.T, args.r,
                                last.vol_mid, args.option_type)
        /\ IF last.price_mid > args.market_price
           THEN vol_high = last.vol_mid /\ vol_low = last.vol_low
           ELSE vol_low = last.vol_mid /\ vol_high = last.vol_high

C10_Witness ==
    /\ pc = "bisection"
    /\ last # None /\ last.fn = "bisection" /\ last.outcome = "narrow"
    /\ i >= 3
    /\ vol_low > default_vol_low
    /\ vol_high < default_vol_high
    /\ last.price_mid > args.market_price
    /\ vol_high = last.vol_mid

(***************************************************************************)
(* Properties of implied_volatility_bisection called on its own.           *)
(***************************************************************************)
BisectionAlone ==
    /\ entry = "implied_volatility_bisection"
    /\ ~black_scholes_raises(args.option_type)

\* C11: for every max_iterations >= 0, 0 included, and a valid option type,
\* implied_volatility_bisection never raises; it returns converged = true
\* with iterations = k at the first midpoint whose price error is below
\* tolerance, and otherwise converged = false with the last midpoint and its
\* residual error.
C11_BisectionContract ==
    BisectionAlone =>
        /\ pc # "raised"
        /\ pc = "done" /\ bisection_result.converged =>
              /\ bisection_result.iterations = i
              /\ bisection_result.implied_vol = vol_mid.value
              /\ bisection_result.final_error = PriceError(vol_mid.value)
              /\ bisection_result.final_error < args.tolerance
        /\ pc = "done" /\ ~bisection_result.converged =>
              /\ i = args.max_iterations
              /\ bisection_result.iterations = args.max_iterations
              /\ bisection_result.implied_vol = vol_mid.value
              /\ bisection_result.final_error = PriceError(vol_mid.value)

\* the same contract for the calls that let the loop body run at least once
C11_BisectionContractAfterOnePass ==
    BisectionAlone /\ args.max_iterations >= 1 => C11_BisectionContract

(***************************************************************************)
(* Properties of repeated and concurrent simulations.                      *)
(***************************************************************************)
SecondRunDone == h_pc = "done" /\ kept # None /\ kept.args = h_args

\* C12: a simulate_delta_hedging call with a seed returns the price path,
\* the rows and the summary that an earlier call with the same arguments
\* returned, whatever np.random was left as by the calls before each.
C12_SeededDeterminism ==
    SecondRunDone /\ h_args.seed # None =>
        /\ kept.df = df
        /\ kept.summary = summary

C12_Witness ==
    /\ SecondRunDone
    /\ h_args.seed = IntSeed(42)
    /\ h_args.n_steps = 2
    /\ h_args.T > 0
    /\ kept.df = df
    /\ df[2].stock_price # df[1].stock_price
    /\ kept.summary = summary

\* without a seed the second call continues the generator where the other
\* calls left it
C12_UnseededDiffers ==
    /\ SecondRunDone
    /\ h_args.seed = None
    /\ kept.df # df

\* the path simulate_stock_path builds from generator state g when no other
\* call draws in between
RECURSIVE path_from(_, _, _, _)
path_from(g, path, k, n) ==
    IF k > n THEN path
    ELSE path_from(advance(g),
                   Put(path, k, gbm_step(At(path, k - 1), path_r, path_sigma,
                                         path_T \div n, standard_normal(g))),
                   k + 1, n)

path_alone(seed, n) ==
    path_from(seed.value % 8, Put(Zeros(n + 1), 0, path_S0), 1, n)

\* C13: two concurrent simulate_stock_path calls with different seeds, their
\* seeding and draws interleaved in any order, each return the path the call
\* returns when it runs alone with its seed.
C13_ParallelRunsIndependent ==
    \A t \in Threads :
        /\ runs[t].pc = "returned"
        /\ runs[t].seed # None
        /\ \A u \in Threads \ {t} : runs[u].seed # runs[t].seed
        => runs[t].path = path_alone(runs[t].seed, runs[t].n_steps)

\* a call whose loop no other call overlaps returns that path
C13_RunAlone ==
    \A t \in Threads :
        /\ runs[t].pc = "returned"
        /\ runs[t].seed # None
        /\ \A u \in Threads \ {t} : runs[u].pc = "idle"
        => runs[t].path = path_alone(runs[t].seed, runs[t].n_steps)

(***************************************************************************)
(* Properties of black_scholes_price and the Greeks.                       *)
(***************************************************************************)
Priced(o) == price_of[o] # None /\ price_of[o].tag = "float"

\* C14: black_scholes_price raises ValueError, and returns no price, for an
\* option_type that is neither 'call' nor 'put' in any letter case; for
\* 'call' and 'put' in any letter case it returns the price of that kind.
C14_InvalidOptionType ==
    \A o \in QuoteOptionTypes :
        price_of[o] # None =>
            IF o \in {"call", "put", "CALL", "PUT"}
            THEN /\ Priced(o)
                 /\ o = "CALL" /\ Priced("call") =>
                        price_of[o].value = price_of["call"].value
                 /\ o = "PUT" /\ Priced("put") =>
                        price_of[o].value = price_of["put"].value
            ELSE price_of[o] = Raised("ValueError")

C14_Witness ==
    /\ price_of["straddle"] = Raised("ValueError")
    /\ Priced("call") /\ Priced("CALL") /\ Priced("put") /\ Priced("PUT")
    /\ price_of["call"].value # price_of["put"].value
    /\ quote.T > 0

\* C15: delta called with an option_type that is neither 'call' nor 'put'
\* raises an invalid-argument error and returns no value.
C15_GreeksRejectUnknownKind ==
    \A o \in QuoteOptionTypes \ {"call", "put", "CALL", "PUT"} :
        delta_of[o] # None => delta_of[o].tag = "raised"

\* what delta returns instead: the value it returns for a put
C15_UnknownKindIsPut ==
    \A o \in QuoteOptionTypes \ {"call", "put", "CALL", "PUT"} :
        delta_of[o] # None /\ delta_of["put"] # None => delta_of[o] = delta_of["put"]

\* C16: with T <= 0 black_scholes_price returns the intrinsic value
\* (max(S-K,0) for a call, max(K-S,0) for a put), delta returns the moneyness
\* indicator, and gamma divides by nothing that is zero.
C16_ExpiryBoundary ==
    quote.T <= 0 =>
        /\ \A o \in {"call", "put"} :
              /\ Priced(o) =>
                    price_of[o].value = intrinsic(quote.S, quote.K, o)
              /\ delta_of[o] # None =>
                    delta_of[o].value = expiry_delta(quote.S, quote.K, o)
        /\ gamma_of # None => gamma_of.divisor # 0

\* what the functions return at T = 0: d1 = d2 = 0, so half of S - K e^(-rT)
\* (its negative for a put), a delta of one half, and a quotient by zero
C16_AtExpiryHalves ==
    quote.T = 0 =>
        /\ Priced("call") => 2 * price_of["call"].value = quote.S - quote.K
        /\ Priced("put") => 2 * price_of["put"].value = quote.K - quote.S
        /\ delta_of["call"] # None => 2 * delta_of["call"].value = ONE
        /\ delta_of["put"] # None => 2 * delta_of["put"].value = -ONE
        /\ gamma_of # None => gamma_of.divisor = 0 /\ gamma_of.value = Inf

(***************************************************************************)
(* Properties of the rebalancing loop and the summary.                     *)
(***************************************************************************)
\* the remaining maturity at step k
Tau(k) == h_args.T - At(times, k)

\* C17: at every step i >= 1 of simulate_delta_hedging, with remaining
\* maturity tau = T - time_i: if tau is above the threshold the option value
\* and delta are those of black_scholes_price and delta called with tau;
\* otherwise the option value is the intrinsic payoff and delta is 1 (call,
\* S > K), -1 (put, S < K) or 0 (0 when S = K). The loop never passes a
\* maturity at or below the threshold to the pricing and Greeks functions.
C17_ExpiryBranch ==
    /\ \A k \in Recorded \ {0} :
          LET S == At(stock_path, k)
              K == h_args.K
          IN  IF Tau(k) > expiry_epsilon
              THEN /\ At(option_values, k) =
                          black_scholes_price(S, K, Tau(k), h_args.r,
                                              h_args.sigma, option_kind)
                   /\ At(deltas, k) =
                          delta(S, K, Tau(k), h_args.r, h_args.sigma, option_kind)
                   /\ Tau(k) \in engine_taus
              ELSE /\ option_kind = "call" =>
                        /\ At(option_values, k) = Max(S - K, 0)
                        /\ At(deltas, k) = IF S > K THEN ONE ELSE 0
                   /\ option_kind = "put" =>
                        /\ At(option_values, k) = Max(K - S, 0)
                        /\ At(deltas, k) = IF S < K THEN -ONE ELSE 0
                   /\ S = K => At(deltas, k) = 0
    /\ \A tau \in engine_taus : tau > expiry_epsilon

C17_Witness ==
    /\ h_pc = "done"
    /\ h_args.n_steps = 2
    /\ Tau(1) > expiry_epsilon
    /\ Tau(2) = 0
    /\ engine_taus = {Tau(1)}
    /\ At(deltas, 1) \notin {0, ONE, -ONE}
    /\ At(deltas, 2) = -ONE
    /\ At(option_values, 2) = h_args.K - At(stock_path, 2)

\* at the money at expiry: the indicator is 0 for a call and for a put
C17_AtTheMoney ==
    /\ h_pc = "done"
    /\ At(stock_path, 1) = h_args.K
    /\ Tau(1) = 0
    /\ At(deltas, 1) = 0
    /\ option_kind = "put"

\* the error_percent the summary should carry for a premium and an error
ErrorPercent(premium, err) ==
    IF premium = 0 THEN 0 ELSE Div(Abs(err), premium) * 100

\* C18: in the summary simulate_delta_hedging returns, option_payoff is the
\* intrinsic payoff at the last price of the path, theoretical_pnl is
\* option_premium - option_payoff, hedging_error and hedge_portfolio_value
\* are the portfolio value of step n_steps, and error_percent is
\* |hedging_error| / option_premium * 100, or 0 when the premium is 0.
C18_Summary ==
    h_pc = "done" =>
        LET n == h_args.n_steps
            final_S == At(stock_path, n)
        IN  /\ summary.option_premium = At(option_values, 0)
            /\ summary.option_payoff =
                  IF option_kind = "call" THEN Max(final_S - h_args.K, 0)
                                          ELSE Max(h_args.K - final_S, 0)
            /\ summary.theoretical_pnl =
                  summary.option_premium - summary.option_payoff
            /\ summary.hedging_error = At(portfolio_values, n)
            /\ summary.hedge_portfolio_value = summary.hedging_error
            /\ summary.error_percent =
                  ErrorPercent(summary.option_premium, summary.hedging_error)

\* the same statement for the runs whose premium is not negative
C18_SummaryNonNegativePremium ==
    h_pc = "done" /\ summary.option_premium >= 0 => C18_Summary

\* a negative premium comes only from black_scholes_price at T = 0
C18_NegativePremiumOnlyAtExpiry ==
    h_pc = "done" /\ summary.option_premium < 0 => h_args.T = 0

(***************************************************************************)
(* Relations between the call and the put.                                 *)
(***************************************************************************)
\* C19: for S, K, sigma, T > 0 the prices black_scholes_price returns
\* satisfy put + S = call + K * e^(-rT) up to the rounding of the
\* arithmetic, which on the grid is one unit (the products S*N(d1) and
\* S*N(-d1), and likewise those of K*e^(-rT), are each rounded to the grid
\* and sum to S, or to S plus one unit).
C19_PutCallParity ==
    quote.T > 0 /\ Priced("call") /\ Priced("put") =>
        Abs((price_of["put"].value + quote.S)
            - (price_of["call"].value
                 + Mul(quote.K, Exp(-Mul(quote.r, quote.T))))) <= 1

C19_Witness ==
    /\ quote.T > 0
    /\ quote.r > 0
    /\ quote.K # quote.S
    /\ Priced("call") /\ Priced("put")
    /\ price_of["call"].value > ONE
    /\ price_of["put"].value > ONE

\* C20: for the same S, K, T, r, sigma, delta of the call minus delta of
\* the put is 1, T = 0 included.
C20_DeltaDifference ==
    delta_of["call"] # None /\ delta_of["put"] # None =>
        delta_of["call"].value - delta_of["put"].value = ONE

C20_Witness ==
    /\ delta_of["call"] # None /\ delta_of["put"] # None
    /\ quote.T = 0
    /\ delta_of["call"].value - delta_of["put"].value = ONE

C20_WitnessBeforeExpiry ==
    /\ delta_of["call"] # None /\ delta_of["put"] # None
    /\ quote.T > 0
    /\ delta_of["call"].value \notin {0, ONE \div 2, ONE}

(***************************************************************************)
(* Further properties of simulate_delta_hedging.                           *)
(***************************************************************************)
InUnit(x) == 0 <= x /\ x <= ONE

\* C21: in every row of every simulate_delta_hedging run, written by the
\* pricing branch or by the expiry branch, delta and shares_held lie in
\* [0, 1] for a short call and in [-1, 0] for a short put.
C21_DeltaBounds ==
    \A k \in Recorded :
        IF option_kind = "call"
        THEN InUnit(At(deltas, k)) /\ InUnit(At(shares, k))
        ELSE InUnit(-At(deltas, k)) /\ InUnit(-At(shares, k))

C21_Witness ==
    /\ h_pc = "done"
    /\ option_kind = "put"
    /\ h_args.n_steps = 2
    /\ At(deltas, 0) < 0 /\ At(deltas, 0) > -ONE
    /\ At(deltas, 1) < 0 /\ At(deltas, 1) > -ONE
    /\ Tau(1) > expiry_epsilon
    /\ At(shares, 2) = -ONE

(***************************************************************************)
(* Further properties of the implied-volatility solvers.                   *)
(***************************************************************************)
\* implied_volatility_newton has returned to a caller that passed a call
\* option and left tolerance and max_iterations at their defaults
NewtonDefaultDone ==
    /\ pc = "done"
    /\ entry = "implied_volatility_newton"
    /\ args.option_type = "call"
    /\ args.tolerance = default_tolerance
    /\ args.max_iterations = default_max_iterations

\* the volatilities whose call price is the market price of the call
Generating ==
    {ts \in TrueSigmas :
        black_scholes_price(args.S, args.K, args.T, args.r, ts, "call")
            = args.market_price}

Recovers(ts) ==
    /\ newton_result.converged
    /\ Abs(newton_result.implied_vol - ts) <= 1

C22_AtExpiryReturnsInitialVol ==
    NewtonDefaultDone /\ args.T = 0 /\ Generating # {} =>
        /\ newton_result.converged
        /\ newton_result.implied_vol = default_initial_vol
        /\ newton_result.iterations = 1
        /\ Generating = TrueSigmas

(***************************************************************************)
(* Properties of put_call_parity_check.                                    *)
(***************************************************************************)
\* C23: put_call_parity_check returns, without raising, difference =
\* |(call_price + K*e^(-rT)) - (put_price + S)| and is_valid = true exactly
\* when difference is strictly below 1% of S; the message reports parity
\* respected exactly when is_valid; is_valid is false when S <= 0.
C23_ParityCheck ==
    parity.result # None =>
        LET res == parity.result
        IN  /\ res.difference =
                  Abs((parity.call_price
                         + Mul(parity.K, Exp(-Mul(parity.r, parity.T))))
                      - (parity.put_price + parity.S))
            /\ res.is_valid \in BOOLEAN
            /\ res.is_valid <=> 100 * res.difference < parity.S
            /\ res.message = "Parite respectee" <=> res.is_valid
            /\ parity.S <= 0 => ~res.is_valid

\* a difference of exactly 1% of S is not valid
C23_Witness ==
    /\ parity.result # None
    /\ parity.S = 100 * ONE
    /\ parity.result.difference = ONE
    /\ ~parity.result.is_valid

C23_WitnessValid ==
    /\ parity.result # None
    /\ parity.r > 0 /\ parity.T > 0
    /\ parity.call_price = 10451 /\ parity.put_price = 5574
    /\ parity.result.difference < ONE \div 10
    /\ parity.result.is_valid

(***************************************************************************)
(* Rebalancing, the path and the terminal step of simulate_delta_hedging.  *)
(***************************************************************************)
\* C24: the hedge is rebalanced at every step: shares_held_i = delta_i for
\* every i in 0..n_steps, and the quantity traded at step i >= 1 is
\* delta_i - shares_held_{i-1}.
C24_Rebalance ==
    /\ \A k \in Recorded : At(shares, k) = At(deltas, k)
    /\ h_pc \in {"loop", "done"} /\ step >= 2 =>
          trade = At(deltas, step - 1) - At(shares, step - 2)
    /\ h_pc = "done" =>
          \A k \in 1..Len(df) : df[k].shares_held = df[k].delta

C24_Witness ==
    /\ h_pc = "done"
    /\ h_args.n_steps = 3
    /\ trade # 0
    /\ trade # At(deltas, 3)
    /\ At(shares, 2) # At(shares, 1)
    /\ At(shares, 1) # At(shares, 0)

\* the path and the generator state after steps k..n, each step taking the
\* next draw of the generator in state g
RECURSIVE ExpectedPath(_, _, _, _)
ExpectedPath(g, path, k, n) ==
    IF k > n THEN [path |-> path, rng |-> g]
    ELSE LET d == h_args.T \div n
             Z == NormalTable[g + 1]
             drift == Mul(h_args.r - Mul(h_args.sigma, h_args.sigma) \div 2, d)
             shock == Mul(Mul(h_args.sigma, Sqrt(d)), Z)
         IN  ExpectedPath(advance(g),
                          Put(path, k, Mul(At(path, k - 1), Exp(drift + shock))),
                          k + 1, n)

PathReturned == h_pc \in {"loop", "done"}

\* C25: the path simulate_stock_path returns has n_steps + 1 prices, starts
\* at S0, and its element i is path[i-1] * exp((r - sigma^2/2)*dt +
\* sigma*sqrt(dt)*Z_i) with dt = T/n_steps and Z_i the i-th draw, one draw
\* per step; the rows simulate_delta_hedging returns are one per path
\* element, in the same order.
C25_PathShape ==
    /\ PathReturned =>
          LET n == h_args.n_steps
          IN  /\ Len(stock_path) = n + 1
              /\ At(stock_path, 0) = h_args.S0
              /\ \E g \in RngStates :
                    /\ h_args.seed # None => g = h_args.seed.value % 8
                    /\ ExpectedPath(g, Put(Zeros(n + 1), 0, h_args.S0), 1, n)
                          = [path |-> stock_path, rng |-> rng]
    /\ h_pc = "done" =>
          /\ Len(df) = h_args.n_steps + 1
          /\ \A k \in 1..Len(df) :
                /\ df[k].stock_price = stock_path[k]
                /\ df[k].time = times[k]

C25_Witness ==
    /\ h_pc = "done"
    /\ h_args.n_steps = 3
    /\ h_args.T > 0
    /\ h_args.seed = None
    /\ Len(df) = 4
    /\ df[2].stock_price > df[1].stock_price
    /\ df[3].stock_price < df[2].stock_price
    /\ df[4].stock_price # df[3].stock_price

(***************************************************************************)
(* The fields of the solver results.                                       *)
(***************************************************************************)
FlagMatchesError(result) ==
    result.converged <=> result.final_error < args.tolerance

\* C26: every result implied_volatility_newton or
\* implied_volatility_bisection returns has converged = true exactly when
\* its final_error is below tolerance.
C26_ConvergedIffBelowTolerance ==
    /\ NewtonReturned => FlagMatchesError(newton_result)
    /\ BisectionReturned => FlagMatchesError(bisection_result)

\* what holds of both: converged = true only with final_error below
\* tolerance, and every bisection result has the flag of its error
C26_ConvergedImpliesBelowTolerance ==
    /\ NewtonReturned /\ newton_result.converged =>
          newton_result.final_error < args.tolerance
    /\ BisectionReturned => FlagMatchesError(bisection_result)

\* a Newton result that is not converged with an error below tolerance comes
\* from the return after the loop with the loop not left by break: the
\* sigma of the last update, or the initial one, was never tested
C26_OnlyAfterUntestedSigma ==
    /\ NewtonReturned /\ ~FlagMatchesError(newton_result) =>
          ~newton_result.converged
    /\ NewtonReturned /\ ~FlagMatchesError(newton_result)
           /\ (pc = "after_newton" \/ entry = "implied_volatility_newton") =>
        /\ ~broke
        /\ i = args.max_iterations

\* implied_volatility_newton has just returned: its loop counter is still
\* the one of the call
NewtonJustReturned ==
    /\ NewtonReturned
    /\ \/ pc = "after_newton"
       \/ pc = "done" /\ entry = "implied_volatility_newton"

\* C27: the iterations field of every result of implied_volatility_newton is
\* the number of passes of the for loop that were started, whether the result
\* is converged, not converged at the cap, or not converged after the break
\* of the near-zero-vega guard.
C27_IterationsCountPasses ==
    NewtonJustReturned => newton_result.iterations = i

\* what holds: a converged result reports the passes started; a result that
\* is not converged reports max_iterations, whatever number was started
C27_IterationsReported ==
    NewtonJustReturned =>
        newton_result.iterations =
            IF newton_result.converged THEN i ELSE args.max_iterations

\* the report differs from the passes started only after the break
C27_WrongOnlyAfterBreak ==
    NewtonJustReturned /\ newton_result.iterations # i => broke

\* calculate_implied_vol returned a number
ReturnedAVolatility == InCalculate /\ pc = "done" /\ ret.tag = "float"

\* the solver whose result became the value of calculate_implied_vol
Producer == IF newton_result.converged THEN "newton" ELSE "bisection"
ProducedResult ==
    IF newton_result.converged THEN newton_result ELSE bisection_result

\* C28: a value of calculate_implied_vol other than NaN is the sigma the
\* producing solver priced in its last pass, that pass found the price within
\* tolerance of market_price, and repricing the value gives an error below
\* the tolerance 1e-6.
C28_ReturnedValueReprices ==
    ReturnedAVolatility =>
        /\ NewtonReturned
        /\ ~newton_result.converged => BisectionReturned
        /\ ProducedResult.converged
        /\ ret = Float(ProducedResult.implied_vol)
        /\ last.fn = Producer
        /\ last.outcome = "converged"
        /\ ret.value = IF Producer = "newton" THEN last.sigma ELSE last.vol_mid
        /\ Abs(IF Producer = "newton" THEN last.price_diff ELSE last.diff)
              < default_tolerance
        /\ ProducedResult.final_error = PriceError(ret.value)
        /\ PriceError(ret.value) < default_tolerance

\* a value produced by Newton-Raphson
C28_Witness ==
    /\ ReturnedAVolatility
    /\ Producer = "newton"
    /\ i > 1
    /\ PriceError(ret.value) < default_tolerance

\* a value produced by bisection after Newton-Raphson failed
C28_WitnessBisection ==
    /\ ReturnedAVolatility
    /\ Producer = "bisection"
    /\ bisection_result.iterations > 1
    /\ PriceError(ret.value) < default_tolerance

(***************************************************************************)
(* The bounds of implied_volatility_bisection, which both callers start at *)
(* default_vol_low < default_vol_high.                                     *)
(***************************************************************************)
InBisection == pc = "bisection"
BisectionPassed == last # None /\ last.fn = "bisection" /\ last.outcome # "raised"

\* w halved k times, each half rounded down, or each rounded up: on the grid
\* w / 2^k lies between the two
RECURSIVE HalvedDown(_, _)
HalvedDown(w, k) == IF k = 0 THEN w ELSE HalvedDown(w \div 2, k - 1)
RECURSIVE HalvedUp(_, _)
HalvedUp(w, k) == IF k = 0 THEN w ELSE HalvedUp((w + 1) \div 2, k - 1)

initial_width == default_vol_high - default_vol_low

\* initial_low <= vol_low <= vol_mid <= vol_high <= initial_high, before and
\* after the bounds are narrowed
BoundsOrdered ==
    /\ InBisection =>
          /\ default_vol_low <= vol_low
          /\ vol_low <= vol_high
          /\ vol_high <= default_vol_high
          /\ vol_mid # None =>
                vol_low <= vol_mid.value /\ vol_mid.value <= vol_high
    /\ BisectionPassed =>
          /\ default_vol_low <= last.vol_low
          /\ last.vol_low <= last.vol_mid
          /\ last.vol_mid <= last.vol_high
          /\ last.vol_high <= default_vol_high

\* vol_low never decreases and vol_high never increases in a pass
BoundsMonotone ==
    InBisection /\ BisectionPassed =>
        /\ last.vol_low <= vol_low
        /\ vol_high <= last.vol_high

\* after k = i passes without convergence the width is the initial width
\* over 2^k, to the rounding of the grid
WidthHalved ==
    InBisection =>
        /\ HalvedDown(initial_width, i) <= vol_high - vol_low
        /\ vol_high - vol_low <= HalvedUp(initial_width, i)

\* C29 as stated: the bounds are ordered inside the initial interval and
\* monotone, the width after k passes without convergence is the initial
\* width over 2^k, and every returned implied_vol lies strictly inside the
\* initial interval.
C29_BisectionBounds ==
    /\ BoundsOrdered
    /\ BoundsMonotone
    /\ WidthHalved
    /\ BisectionReturned =>
          /\ default_vol_low < bisection_result.implied_vol
          /\ bisection_result.implied_vol < default_vol_high

\* C29 amended: the same ordering, monotonicity and halving, and every
\* returned implied_vol is the last midpoint and lies in the closed initial
\* interval, whose bounds it can reach; a converged one reprices within
\* tolerance.
C29_BisectionBoundsClosed ==
    /\ BoundsOrdered
    /\ BoundsMonotone
    /\ WidthHalved
    /\ BisectionReturned =>
          /\ default_vol_low <= bisection_result.implied_vol
          /\ bisection_result.implied_vol <= default_vol_high
          /\ bisection_result.implied_vol = last.vol_mid
          /\ bisection_result.converged =>
                PriceError(bisection_result.implied_vol) < args.tolerance

\* bisection ran to the cap on a price below every attainable one and
\* returned the lower bound of the initial interval
C29_Witness ==
    /\ BisectionReturned
    /\ ~bisection_result.converged
    /\ bisection_result.iterations = default_max_iterations
    /\ bisection_result.implied_vol = default_vol_low
    /\ vol_high = default_vol_low

\* the bounds after three passes, both moved
C29_WitnessNarrowed ==
    /\ InBisection
    /\ i = SmallCap
    /\ default_vol_low < vol_low
    /\ vol_high < default_vol_high
    /\ vol_high - vol_low = HalvedUp(initial_width, SmallCap)

(***************************************************************************)
(* The terminal step of simulate_delta_hedging.                            *)
(***************************************************************************)
\* the pass of the rebalancing loop for step n_steps has run
TerminalStepDone == h_pc \in {"loop", "done"} /\ step > h_args.n_steps

\* C30: with n_steps >= 1 the terminal step has tau = T - time_n = 0 and
\* takes the at-expiry branch: nothing is priced at tau, the terminal
\* option_value is the payoff the summary reports, hedging_error is
\* cash_n + shares_held_n * S_n - option_payoff, and the terminal shares_held
\* is 0 or 1 for a call and -1 or 0 for a put.
C30_TerminalStep ==
    TerminalStepDone =>
        LET n == h_args.n_steps
            S == At(stock_path, n)
        IN  /\ n >= 1
            /\ At(times, n) = h_args.T
            /\ Tau(n) = 0
            /\ ~(Tau(n) > expiry_epsilon)
            /\ Tau(n) \notin engine_taus
            /\ At(option_values, n) = intrinsic(S, h_args.K, option_kind)
            /\ At(deltas, n) = expiry_delta(S, h_args.K, option_kind)
            /\ At(shares, n) = At(deltas, n)
            /\ option_kind = "call" => At(shares, n) \in {0, ONE}
            /\ option_kind = "put" => At(shares, n) \in {-ONE, 0}
            /\ h_pc = "done" =>
                  /\ summary.option_payoff = At(option_values, n)
                  /\ summary.final_stock_price = S
                  /\ summary.hedging_error =
                        At(cash, n) + Mul(At(shares, n), S) - summary.option_payoff
                  /\ df[n + 1].option_value = summary.option_payoff
                  /\ df[n + 1].shares_held = At(shares, n)

\* a call that ends in the money after steps priced before expiry
C30_Witness ==
    /\ h_pc = "done"
    /\ h_args.n_steps >= 2
    /\ h_args.T > 0
    /\ option_kind = "call"
    /\ engine_taus # {}
    /\ At(shares, h_args.n_steps - 1) \notin {0, ONE}
    /\ At(shares, h_args.n_steps) = ONE
    /\ summary.option_payoff > 0
    /\ summary.option_payoff = At(option_values, h_args.n_steps)

\* a put that ends out of the money
C30_WitnessPut ==
    /\ h_pc = "done"
    /\ h_args.T > 0
    /\ option_kind = "put"
    /\ At(shares, h_args.n_steps) = 0
    /\ summary.option_payoff = 0
    /\ summary.hedging_error # 0

====
